---- MODULE Spec2Model ----
(***************************************************************************)
(* Model of the two Redis services of the repository:                      *)
(*   src/src/services/redis_service.py        RedisService (threads)       *)
(*   src/src/services/redis_async_service.py  AsyncRedisService (tasks)    *)
(* SpecSync runs the synchronous service on parallel threads, one action   *)
(* per interpreter-level step between two reads or writes of class state.  *)
(* SpecAsync runs the asynchronous service as two cooperatively scheduled  *)
(* tasks of one event loop, one action per stretch of code between awaits. *)
(***************************************************************************)
EXTENDS Integers, Sequences, FiniteSets, TLC

\* ---------------------------------------------------------------- bounds
NThreads == 2
\* set_connection_pool calls that build a pool, over a whole run
MaxPools == 2

\* ---------------------------------------------------------------- values
None == 0
Threads == 1..NThreads
Keys == {"k1", "k2"}
Values == {"r1", "r2"}
NoExpiry == 0
\* testredis.py passes ex=60; any positive number of seconds behaves alike
Expiries == {NoExpiry, 60}
Absent == [val |-> "None", ex |-> NoExpiry]
\* a thread with no set still in effect
NoSet == [k |-> "none", v |-> "none"]
Entry(v, e) == [val |-> v, ex |-> e]

VARIABLES
  \* the key-value server both services talk to: key -> Absent or Entry
  store,
  \* ---- RedisService class attributes
  RS_instance,    \* cls._instance: None or an object id
  RS_client,      \* cls._client: None or a client id
  RS_lock,        \* cls._lock: None or the thread holding it
  nClients,       \* number of redis.Redis(...) constructions so far
  clientClosed,   \* close() was called on the client cls._client refers to
  \* ---- one record per thread
  tpc,            \* position of the thread
  top,            \* the call the thread is in, or the last one it finished
  tself,          \* the object under construction in __init__ (None outside)
  tref,           \* the RedisService reference the thread holds (None: none)
  tres,           \* outcome of the last finished call: "returned" (the reference
                  \* is then in tref), a value read from the server, or an error name
  \* ---- history, written only to state the claims
  initStored,     \* an initialize call has executed line 70
  initRets,       \* every value an initialize call returned
  directUsed,     \* RedisService(...) was called directly by some thread
  closedNoReinit, \* a close() finished and no initialize was called since
  tSawInit,       \* initStored when the thread's initialize / get_instance began
  tSawClose,      \* closedNoReinit when the thread's get_instance began
  lastSet,        \* per thread: key and value of its latest set, while that key
                  \* has not been written again and has not expired
  tkey,           \* per thread: the key of its latest get
  everSet         \* the keys a set was ever called on

VARIABLES
  \* ---- AsyncRedisService and its metaclass
  Meta_instances, \* the metaclass's registered instance: None or an object id
  ARS_instance,   \* cls._instance: None or an object id
  nInits,         \* number of times AsyncRedisService.__init__ has run
  \* ---- attributes of the one AsyncRedisService object
  pool,           \* self._pool: None or a pool id
  client,         \* self._client: None or a client id (that of its pool)
  ARS_lock,       \* self._lock: how often the RLock is held (by the loop's thread)
  nPools,         \* number of ConnectionPool(...) constructions so far
  closedClients,  \* client ids whose aclose() has completed
  closedPools,    \* pool ids whose aclose() has completed
  \* ---- one record per task: pc, op, arg, cl, pl, res, fres, ref, gen,
  \* path, hadPool, sent, keys, snap
  task

lifeVars == <<RS_instance, RS_client, RS_lock, nClients, clientClosed, tpc, top,
              tself, tref, tres, initStored, initRets, directUsed,
              closedNoReinit, tSawInit, tSawClose>>
kvVars == <<lastSet, tkey, everSet>>
syncVars == <<lifeVars, kvVars>>
classVars == <<Meta_instances, ARS_instance, nInits>>
connVars == <<pool, client, ARS_lock, nPools, closedClients, closedPools>>
asyncVars == <<classVars, connVars, task>>
vars == <<store, syncVars, asyncVars>>

Tasks == {"A", "B"}
\* the async operation handed to set_decorator
Funcs == {"compute"}
Callable(x) == x \in Funcs
Ok(v) == [st |-> "ok", v |-> v]
Raised(e) == [st |-> "raised", v |-> e]
\* line 70: raise Exception("Connection pool not set. ...")
NotInitialized == "Exception: Connection pool not set. Call set_connection_pool() first."
IdleTask == [pc |-> "idle", op |-> "none", arg |-> "none", cl |-> None, pl |-> None,
             res |-> Ok("none"), fres |-> "none", ref |-> None, gen |-> 0,
             path |-> "none", hadPool |-> FALSE, sent |-> FALSE,
             keys |-> <<>>, snap |-> "none"]

Errors == {"RedisNotInitializedException", "RedisAlreadyInitializedException",
           "AttributeError"}

\* object ids are reused once nothing refers to the object, as CPython's are
ObjectIds == 1..(2 * NThreads + 1)
UsedObjects == {RS_instance} \cup {tref[t] : t \in Threads} \cup {tself[t] : t \in Threads}
FreshObject == CHOOSE o \in ObjectIds : o \notin UsedObjects /\ \A p \in ObjectIds : p < o => p \in UsedObjects

InitSync ==
  /\ RS_instance = None
  /\ RS_client = None
  /\ RS_lock = None
  /\ nClients = 0
  /\ clientClosed = FALSE
  /\ tpc = [t \in Threads |-> "idle"]
  /\ top = [t \in Threads |-> "none"]
  /\ tself = [t \in Threads |-> None]
  /\ tref = [t \in Threads |-> None]
  /\ tres = [t \in Threads |-> "none"]
  /\ initStored = FALSE
  /\ initRets = {}
  /\ directUsed = FALSE
  /\ closedNoReinit = FALSE
  /\ tSawInit = [t \in Threads |-> FALSE]
  /\ tSawClose = [t \in Threads |-> FALSE]
  /\ lastSet = [t \in Threads |-> NoSet]
  /\ tkey = [t \in Threads |-> "none"]
  /\ everSet = {}

InitAsync ==
  /\ Meta_instances = None
  /\ ARS_instance = None
  /\ nInits = 0
  /\ pool = None
  /\ client = None
  /\ ARS_lock = 0
  /\ nPools = 0
  /\ closedClients = {}
  /\ closedPools = {}
  /\ task = [t \in Tasks |-> IdleTask]

Init ==
  /\ store = [k \in Keys |-> Absent]
  /\ InitSync
  /\ InitAsync

\* ------------------------------------------------ RedisService.initialize
\* a thread calls RedisService.initialize(...) and reaches `with cls._lock`
CallInitialize(t) ==
  /\ tpc[t] = "idle"
  /\ tpc' = [tpc EXCEPT ![t] = "init_lock"]
  /\ top' = [top EXCEPT ![t] = "initialize"]
  /\ tres' = [tres EXCEPT ![t] = "none"]
  /\ tSawInit' = [tSawInit EXCEPT ![t] = initStored]
  /\ tSawClose' = [tSawClose EXCEPT ![t] = FALSE]
  /\ closedNoReinit' = FALSE
  /\ UNCHANGED <<asyncVars, kvVars>>
  /\ UNCHANGED <<store, RS_instance, RS_client, RS_lock, nClients, clientClosed,
                 tself, tref, initStored, initRets, directUsed>>

\* mutant: the lock never makes a caller wait
LockAlwaysFree == TRUE

\* threading.Lock: acquire blocks while another thread holds it
LockFree == RS_lock = None

\* line 68: with cls._lock (enter)
AcquireLock(t) ==
  /\ tpc[t] = "init_lock"
  /\ LockFree
  /\ RS_lock' = t
  /\ tpc' = [tpc EXCEPT ![t] = "init_check"]
  /\ UNCHANGED <<asyncVars, kvVars>>
  /\ UNCHANGED <<store, RS_instance, RS_client, nClients, clientClosed, top, tself,
                 tref, tres, initStored, initRets, directUsed, closedNoReinit,
                 tSawInit, tSawClose>>

\* mutant: initialize constructs without looking at cls._instance
InitAlwaysConstructs == TRUE

\* line 69: cls._instance is None
InitNeedsConstruct == RS_instance = None

\* line 69: if cls._instance is None; line 70 starts with cls(...), whose
\* object.__new__ makes the object __init__ then runs on
InitCheck(t) ==
  /\ tpc[t] = "init_check"
  /\ IF InitNeedsConstruct
       THEN /\ tself' = [tself EXCEPT ![t] = FreshObject]
            /\ tpc' = [tpc EXCEPT ![t] = "ctor_check"]
       ELSE /\ tpc' = [tpc EXCEPT ![t] = "init_unlock"]
            /\ UNCHANGED tself
  /\ UNCHANGED <<asyncVars, kvVars>>
  /\ UNCHANGED <<store, RS_instance, RS_client, RS_lock, nClients, clientClosed, top,
                 tref, tres, initStored, initRets, directUsed, closedNoReinit,
                 tSawInit, tSawClose>>

\* lines 35-36: if RedisService._client is not None: raise. The exception
\* leaves initialize through its with block, which releases the lock.
CtorCheck(t) ==
  /\ tpc[t] = "ctor_check"
  /\ IF RS_client # None
       THEN /\ tres' = [tres EXCEPT ![t] = "RedisAlreadyInitializedException"]
            /\ tpc' = [tpc EXCEPT ![t] = "idle"]
            /\ tself' = [tself EXCEPT ![t] = None]
            /\ RS_lock' = IF top[t] = "initialize" THEN None ELSE RS_lock
       ELSE /\ tpc' = [tpc EXCEPT ![t] = "ctor_make"]
            /\ UNCHANGED <<tres, tself, RS_lock>>
  /\ UNCHANGED <<asyncVars, kvVars>>
  /\ UNCHANGED <<store, RS_instance, RS_client, nClients, clientClosed, top, tref,
                 initStored, initRets, directUsed, closedNoReinit, tSawInit,
                 tSawClose>>

\* lines 38-45: RedisService._client = redis.Redis(...); a direct
\* RedisService(...) call returns the new object to its caller here
CtorMake(t) ==
  /\ tpc[t] = "ctor_make"
  /\ nClients' = nClients + 1
  /\ RS_client' = nClients + 1
  /\ clientClosed' = FALSE
  /\ IF top[t] = "initialize"
       THEN /\ tpc' = [tpc EXCEPT ![t] = "init_store"]
            /\ UNCHANGED <<tres, tref, tself>>
       ELSE /\ tpc' = [tpc EXCEPT ![t] = "idle"]
            /\ tres' = [tres EXCEPT ![t] = "returned"]
            /\ tref' = [tref EXCEPT ![t] = tself[t]]
            /\ tself' = [tself EXCEPT ![t] = None]
  /\ UNCHANGED <<asyncVars, kvVars>>
  /\ UNCHANGED <<store, RS_instance, RS_lock, top, initStored,
                 initRets, directUsed, closedNoReinit, tSawInit, tSawClose>>

\* line 70: cls._instance = <the constructed object>
InitStore(t) ==
  /\ tpc[t] = "init_store"
  /\ RS_instance' = tself[t]
  /\ tself' = [tself EXCEPT ![t] = None]
  /\ initStored' = TRUE
  /\ tpc' = [tpc EXCEPT ![t] = "init_unlock"]
  /\ UNCHANGED <<asyncVars, kvVars>>
  /\ UNCHANGED <<store, RS_client, RS_lock, nClients, clientClosed, top, tref, tres,
                 initRets, directUsed, closedNoReinit, tSawInit, tSawClose>>

\* line 68: with cls._lock (exit)
InitUnlock(t) ==
  /\ tpc[t] = "init_unlock"
  /\ RS_lock' = None
  /\ tpc' = [tpc EXCEPT ![t] = "init_ret"]
  /\ UNCHANGED <<asyncVars, kvVars>>
  /\ UNCHANGED <<store, RS_instance, RS_client, nClients, clientClosed, top, tself,
                 tref, tres, initStored, initRets, directUsed, closedNoReinit,
                 tSawInit, tSawClose>>

\* line 71: return cls._instance
InitReturn(t) ==
  /\ tpc[t] = "init_ret"
  /\ tres' = [tres EXCEPT ![t] = "returned"]
  /\ tref' = [tref EXCEPT ![t] = RS_instance]
  /\ initRets' = initRets \cup {RS_instance}
  /\ tpc' = [tpc EXCEPT ![t] = "idle"]
  /\ UNCHANGED <<asyncVars, kvVars>>
  /\ UNCHANGED <<store, RS_instance, RS_client, RS_lock, nClients, clientClosed, top,
                 tself, initStored, directUsed, closedNoReinit, tSawInit, tSawClose>>

\* --------------------------------------------- RedisService(...) directly
\* the constructor is public: object.__new__ and then __init__ (lines 27-45)
CallConstructor(t) ==
  /\ tpc[t] = "idle"
  /\ tpc' = [tpc EXCEPT ![t] = "ctor_check"]
  /\ top' = [top EXCEPT ![t] = "constructor"]
  /\ tres' = [tres EXCEPT ![t] = "none"]
  /\ tself' = [tself EXCEPT ![t] = FreshObject]
  /\ directUsed' = TRUE
  /\ tSawInit' = [tSawInit EXCEPT ![t] = FALSE]
  /\ tSawClose' = [tSawClose EXCEPT ![t] = FALSE]
  /\ UNCHANGED <<asyncVars, kvVars>>
  /\ UNCHANGED <<store, RS_instance, RS_client, RS_lock, nClients, clientClosed, tref,
                 initStored, initRets, closedNoReinit>>

\* ---------------------------------------------- RedisService.get_instance
\* mutant: get_instance tests the client where the code tests the instance
InstanceMissingByClient == RS_client = None

\* line 83: cls._instance is None
InstanceMissing == RS_instance = None

\* lines 83-84: if cls._instance is None: raise RedisNotInitializedException()
GetInstanceCheck(t) ==
  /\ tpc[t] = "idle"
  /\ top' = [top EXCEPT ![t] = "get_instance"]
  /\ tSawInit' = [tSawInit EXCEPT ![t] = initStored]
  /\ tSawClose' = [tSawClose EXCEPT ![t] = closedNoReinit]
  /\ IF InstanceMissing
       THEN /\ tres' = [tres EXCEPT ![t] = "RedisNotInitializedException"]
            /\ UNCHANGED tpc
       ELSE /\ tres' = [tres EXCEPT ![t] = "none"]
            /\ tpc' = [tpc EXCEPT ![t] = "gi_ret"]
  /\ UNCHANGED <<asyncVars, kvVars>>
  /\ UNCHANGED <<store, RS_instance, RS_client, RS_lock, nClients, clientClosed,
                 tself, tref, initStored, initRets, directUsed, closedNoReinit>>

\* line 85: return cls._instance
GetInstanceReturn(t) ==
  /\ tpc[t] = "gi_ret"
  /\ tres' = [tres EXCEPT ![t] = "returned"]
  /\ tref' = [tref EXCEPT ![t] = RS_instance]
  /\ tpc' = [tpc EXCEPT ![t] = "idle"]
  /\ UNCHANGED <<asyncVars, kvVars>>
  /\ UNCHANGED <<store, RS_instance, RS_client, RS_lock, nClients, clientClosed, top,
                 tself, initStored, initRets, directUsed, closedNoReinit, tSawInit,
                 tSawClose>>

\* ------------------------------------------------- RedisService.set / get
\* history: the sets still in effect once key k is written again or expires
Overwritten(k) == [u \in Threads |-> IF lastSet[u].k = k THEN NoSet ELSE lastSet[u]]

\* line 95: RedisService._client.set(name=key, value=value, ex=ex), called on
\* a reference the thread holds; the server overwrites the key
SyncSet(t, k, v, e) ==
  /\ tpc[t] = "idle"
  /\ tref[t] # None
  /\ top' = [top EXCEPT ![t] = "set"]
  /\ IF RS_client = None
       THEN /\ tres' = [tres EXCEPT ![t] = "AttributeError"]
            /\ UNCHANGED <<store, lastSet>>
       ELSE /\ store' = [store EXCEPT ![k] = Entry(v, e)]
            /\ tres' = [tres EXCEPT ![t] = "None"]
            /\ lastSet' = [Overwritten(k) EXCEPT ![t] = [k |-> k, v |-> v]]
  /\ everSet' = everSet \cup {k}
  /\ tSawInit' = [tSawInit EXCEPT ![t] = FALSE]
  /\ tSawClose' = [tSawClose EXCEPT ![t] = closedNoReinit]
  /\ tkey' = [tkey EXCEPT ![t] = "none"]
  /\ UNCHANGED asyncVars
  /\ UNCHANGED <<RS_instance, RS_client, RS_lock, nClients, clientClosed, tpc, tself,
                 tref, initStored, initRets, directUsed, closedNoReinit>>

\* mutant: the server answers every GET as if the key were missing
ServerGetMiss(k) == "None"

\* the server's GET: the value under the key, or the absent result
ServerGet(k) == store[k].val

\* line 106: return RedisService._client.get(name=key)
SyncGet(t, k) ==
  /\ tpc[t] = "idle"
  /\ tref[t] # None
  /\ top' = [top EXCEPT ![t] = "get"]
  /\ tres' = [tres EXCEPT ![t] = IF RS_client = None THEN "AttributeError"
                                 ELSE ServerGet(k)]
  /\ tkey' = [tkey EXCEPT ![t] = k]
  /\ tSawInit' = [tSawInit EXCEPT ![t] = FALSE]
  /\ tSawClose' = [tSawClose EXCEPT ![t] = closedNoReinit]
  /\ UNCHANGED <<asyncVars, lastSet, everSet>>
  /\ UNCHANGED <<store, RS_instance, RS_client, RS_lock, nClients, clientClosed, tpc,
                 tself, tref, initStored, initRets, directUsed, closedNoReinit>>

\* ---------------------------------------------------- RedisService.close
\* line 111: if RedisService._client:
CloseCheck(t) ==
  /\ tpc[t] = "idle"
  /\ tref[t] # None
  /\ top' = [top EXCEPT ![t] = "close"]
  /\ tres' = [tres EXCEPT ![t] = "none"]
  /\ IF RS_client # None
       THEN /\ tpc' = [tpc EXCEPT ![t] = "close_call"]
            /\ UNCHANGED closedNoReinit
       ELSE /\ closedNoReinit' = TRUE
            /\ UNCHANGED tpc
  /\ tSawInit' = [tSawInit EXCEPT ![t] = FALSE]
  /\ tSawClose' = [tSawClose EXCEPT ![t] = FALSE]
  /\ UNCHANGED <<asyncVars, kvVars>>
  /\ UNCHANGED <<store, RS_instance, RS_client, RS_lock, nClients, clientClosed,
                 tself, tref, initStored, initRets, directUsed>>

\* line 112: RedisService._client.close(); neither class attribute is reset
CloseCall(t) ==
  /\ tpc[t] = "close_call"
  /\ clientClosed' = TRUE
  /\ closedNoReinit' = TRUE
  /\ tres' = [tres EXCEPT ![t] = "None"]
  /\ tpc' = [tpc EXCEPT ![t] = "idle"]
  /\ UNCHANGED <<asyncVars, kvVars>>
  /\ UNCHANGED <<store, RS_instance, RS_client, RS_lock, nClients, top, tself, tref,
                 initStored, initRets, directUsed, tSawInit, tSawClose>>

\* ------------------------------------------------------------ the server
\* a key written with ex=<seconds> disappears once the seconds have elapsed
KeyExpires(k) ==
  /\ store[k] # Absent
  /\ store[k].ex # NoExpiry
  /\ store' = [store EXCEPT ![k] = Absent]
  /\ lastSet' = Overwritten(k)
  /\ UNCHANGED <<lifeVars, tkey, everSet, asyncVars>>

NextSync ==
  \/ \E t \in Threads : CallInitialize(t)
  \/ \E t \in Threads : AcquireLock(t)
  \/ \E t \in Threads : InitCheck(t)
  \/ \E t \in Threads : CtorCheck(t)
  \/ \E t \in Threads : CtorMake(t)
  \/ \E t \in Threads : InitStore(t)
  \/ \E t \in Threads : InitUnlock(t)
  \/ \E t \in Threads : InitReturn(t)
  \/ \E t \in Threads : CallConstructor(t)
  \/ \E t \in Threads : GetInstanceCheck(t)
  \/ \E t \in Threads : GetInstanceReturn(t)
  \/ \E t \in Threads : CloseCheck(t)
  \/ \E t \in Threads : CloseCall(t)

SpecSync == Init /\ [][NextSync]_vars

\* testredis.py run by several threads at once: a thread that holds no
\* reference yet calls initialize, then (or at once) get_instance, and then
\* sets and gets keys, which also expire
NextKV ==
  \/ \E t \in Threads : tref[t] = None /\ CallInitialize(t)
  \/ \E t \in Threads : AcquireLock(t)
  \/ \E t \in Threads : InitCheck(t)
  \/ \E t \in Threads : CtorCheck(t)
  \/ \E t \in Threads : CtorMake(t)
  \/ \E t \in Threads : InitStore(t)
  \/ \E t \in Threads : InitUnlock(t)
  \/ \E t \in Threads : InitReturn(t)
  \/ \E t \in Threads : (tref[t] = None \/ top[t] = "initialize") /\ GetInstanceCheck(t)
  \/ \E t \in Threads : GetInstanceReturn(t)
  \/ \E t \in Threads, k \in Keys, v \in Values, e \in Expiries : SyncSet(t, k, v, e)
  \/ \E t \in Threads, k \in Keys : SyncGet(t, k)
  \/ \E k \in Keys : KeyExpires(k)

SpecKV == Init /\ [][NextKV]_vars

\* ------------------------------------------------- claims: RedisService
Finished(t, o) == tpc[t] = "idle" /\ top[t] = o

\* C1: when only initialize is called (from any number of threads, in any
\* interleaving), redis.Redis is constructed at most once, exactly once as
\* soon as some initialize has returned, and every initialize that returns
\* returns the one registered instance.
C1_InitializeOnce ==
  ~directUsed =>
    /\ nClients <= 1
    /\ Cardinality(initRets) <= 1
    /\ initRets \subseteq {RS_instance}
    /\ None \notin initRets
    /\ \A t \in Threads :
         (Finished(t, "initialize") /\ tres[t] = "returned")
           => (nClients = 1 /\ tref[t] = RS_instance /\ tref[t] \in initRets)

\* two initialize calls, both issued before any instance was stored, have
\* both returned
C1_Witness ==
  /\ ~directUsed
  /\ \E t1, t2 \in Threads :
       /\ t1 # t2
       /\ Finished(t1, "initialize") /\ ~tSawInit[t1] /\ tres[t1] = "returned"
       /\ Finished(t2, "initialize") /\ ~tSawInit[t2] /\ tres[t2] = "returned"

InInitialize(t) == top[t] = "initialize" /\ tpc[t] # "idle"

C4_GetInstance ==
  \A t \in Threads :
    Finished(t, "get_instance") =>
      IF tSawInit[t]
        THEN /\ tres[t] = "returned"
             /\ tref[t] = RS_instance
             /\ RS_instance # None
             /\ initRets \subseteq {tref[t]}
        ELSE tres[t] = "RedisNotInitializedException"

\* one get_instance failed before initialize, another returned the instance
\* an initialize call returned
C4_Witness ==
  \E t1, t2 \in Threads :
    /\ Finished(t1, "get_instance") /\ tres[t1] = "RedisNotInitializedException"
    /\ Finished(t2, "get_instance") /\ tres[t2] = "returned"
    /\ tref[t2] \in initRets

\* C8 as written: once a close() has finished and initialize has not been
\* called again, get_instance fails with RedisNotInitializedException.
C8_CloseRevertsToNoPool ==
  \A t \in Threads :
    (Finished(t, "get_instance") /\ tSawClose[t])
      => tres[t] = "RedisNotInitializedException"

\* ======================================================= AsyncRedisService
\* a call starts: the record of the call the task makes from idle
Start(t, o) ==
  [IdleTask EXCEPT !.op = o, !.ref = task[t].ref, !.gen = nPools,
                   !.hadPool = (pool # None)]

\* a call ends with result r: its locals are gone
Finish(rec, r) ==
  [rec EXCEPT !.pc = "idle", !.arg = "none", !.cl = None, !.pl = None,
              !.fres = "none", !.gen = 0, !.keys = <<>>, !.snap = "none",
              !.res = r]

\* ------------------------------------------------- AsyncRedisService()
\* lines 25-34: __new__ makes an object only while cls._instance is None
New == IF ARS_instance = None THEN nInits + 1 ELSE ARS_instance

\* the metaclass's fast path: an instance is already registered
MetaHasInstance == Meta_instances # None

\* AsyncSingletonMeta.__call__, outside its lock: return the registered
\* instance, or go on to construct one under the lock
MetaCall(t) ==
  /\ task[t].pc = "idle"
  /\ task' = [task EXCEPT ![t] =
       IF MetaHasInstance
         THEN [Finish(Start(t, "construct"), Ok("instance")) EXCEPT !.ref = Meta_instances]
         ELSE [Start(t, "construct") EXCEPT !.pc = "meta_lock"]]
  /\ UNCHANGED <<store, syncVars, classVars, connVars>>

\* mutant: the metaclass constructs again without looking under its lock
MetaNoRecheck == TRUE

\* the metaclass's second check, made under its lock
MetaRecheck == Meta_instances = None

\* AsyncSingletonMeta.__call__, under its lock: if still no instance is
\* registered, type.__call__ runs __new__ (lines 25-34) and then __init__
\* (lines 36-39), which sets _pool and _client to None and makes a new RLock
MetaConstruct(t) ==
  /\ task[t].pc = "meta_lock"
  /\ IF MetaRecheck
       THEN /\ ARS_instance' = New
            /\ Meta_instances' = New
            /\ nInits' = nInits + 1
            /\ pool' = None
            /\ client' = None
            /\ ARS_lock' = 0
            /\ UNCHANGED <<nPools, closedClients, closedPools>>
       ELSE UNCHANGED <<classVars, connVars>>
  /\ task' = [task EXCEPT ![t] =
       [Finish(task[t], Ok("instance")) EXCEPT !.ref = Meta_instances']]
  /\ UNCHANGED <<store, syncVars>>

\* --------------------------------------------------- set_connection_pool
\* lines 53-63: with self._lock: build the pool and its client. The RLock
\* belongs to the event loop's thread, which runs every task, so acquiring
\* it never waits; it is released before the coroutine ends. No await: the
\* whole call is one step.
SetConnectionPool(t) ==
  /\ task[t].pc = "idle"
  /\ task[t].ref # None
  /\ nPools < MaxPools
  /\ nPools' = nPools + 1
  /\ pool' = nPools + 1
  /\ client' = nPools + 1
  /\ task' = [task EXCEPT ![t] = Finish(Start(t, "set_connection_pool"), Ok("None"))]
  /\ UNCHANGED <<store, syncVars, classVars, ARS_lock, closedClients, closedPools>>

\* ---------------------------------------------------------------- aclose
\* the result of the call that ends with aclose: aclose() itself, or the
\* async with block, which re-raises its body's error after __aexit__
AcloseResult(rec) ==
  IF rec.op = "with" /\ rec.path = "error" THEN Raised("BodyError") ELSE Ok("None")

\* lines 77-79 (and 80-83 when no client is bound): take the RLock, then
\* await self._client.aclose() on the client bound now
AcloseEnter(t) ==
  /\ \/ task[t].pc = "idle" /\ task[t].ref # None
     \/ task[t].pc = "aexit"
  /\ LET rec == IF task[t].pc = "idle" THEN Start(t, "aclose")
                ELSE [task[t] EXCEPT !.gen = nPools, !.hadPool = (pool # None)]
     IN IF client # None
          THEN /\ task' = [task EXCEPT ![t] = [rec EXCEPT !.pc = "ac_client", !.cl = client]]
               /\ ARS_lock' = ARS_lock + 1
               /\ UNCHANGED <<pool, client>>
          ELSE IF pool # None
            THEN /\ task' = [task EXCEPT ![t] = [rec EXCEPT !.pc = "ac_pool", !.pl = pool]]
                 /\ ARS_lock' = ARS_lock + 1
                 /\ UNCHANGED <<pool, client>>
            ELSE /\ task' = [task EXCEPT ![t] = Finish(rec, AcloseResult(rec))]
                 /\ client' = None
                 /\ pool' = None
                 /\ UNCHANGED ARS_lock
  /\ UNCHANGED <<store, syncVars, classVars, nPools, closedClients, closedPools>>

\* lines 79-81: the client's aclose() has completed; self._pool is read now,
\* and if one is bound, await self._pool.aclose()
AcloseClientClosed(t) ==
  /\ task[t].pc = "ac_client"
  /\ closedClients' = closedClients \cup {task[t].cl}
  /\ IF pool # None
       THEN /\ task' = [task EXCEPT ![t] = [@ EXCEPT !.pc = "ac_pool", !.pl = pool]]
            /\ UNCHANGED <<pool, client, ARS_lock>>
       ELSE /\ task' = [task EXCEPT ![t] = Finish(@, AcloseResult(@))]
            /\ client' = None
            /\ pool' = None
            /\ ARS_lock' = ARS_lock - 1
  /\ UNCHANGED <<store, syncVars, classVars, nPools, closedPools>>

\* lines 81-83: the pool's aclose() has completed; clear both references
\* and release the RLock
AclosePoolClosed(t) ==
  /\ task[t].pc = "ac_pool"
  /\ closedPools' = closedPools \cup {task[t].pl}
  /\ client' = None
  /\ pool' = None
  /\ ARS_lock' = ARS_lock - 1
  /\ task' = [task EXCEPT ![t] = Finish(@, AcloseResult(@))]
  /\ UNCHANGED <<store, syncVars, classVars, nPools, closedClients>>

\* ------------------------------------------------------------ async with
\* lines 85-87: __aenter__ returns self; the block's body runs next
WithEnter(t) ==
  /\ task[t].pc = "idle"
  /\ task[t].ref # None
  /\ task' = [task EXCEPT ![t] = [Start(t, "with") EXCEPT !.pc = "with_body"]]
  /\ UNCHANGED <<store, syncVars, classVars, connVars>>

\* mutant: __aexit__ closes only when the body raised nothing
ExitClosesOnSuccessOnly(path) == path = "normal"

\* lines 89-90: __aexit__ awaits self.aclose() whatever exc_type is
ExitCloses(path) == TRUE

\* the body of the block ends, normally or by raising; __aexit__ follows
WithBodyEnds(t, path) ==
  /\ task[t].pc = "with_body"
  /\ task' = [task EXCEPT ![t] =
       IF ExitCloses(path)
         THEN [@ EXCEPT !.pc = "aexit", !.path = path]
         ELSE Finish([@ EXCEPT !.path = path], AcloseResult([@ EXCEPT !.path = path]))]
  /\ UNCHANGED <<store, syncVars, classVars, connVars>>

\* -------------------------------------------------------- get_connection
\* mutant: get_connection hands out self._client without testing it
ClientMissingNever == FALSE

\* line 69: self._client is None
ClientMissing == client = None

\* lines 65-71 called by a task directly
GetConnection(t) ==
  /\ task[t].pc = "idle"
  /\ task[t].ref # None
  /\ task' = [task EXCEPT ![t] =
       IF ClientMissing
         THEN Finish(Start(t, "get_connection"), Raised(NotInitialized))
         ELSE [Finish(Start(t, "get_connection"), Ok("client")) EXCEPT !.cl = client]]
  /\ UNCHANGED <<store, syncVars, classVars, connVars>>

\* ------------------------------------------------- key-value operations
KVOps == {"get", "set", "mget", "mset", "get_by_pattern", "delete", "exists",
          "keys", "flushdb", "pipeline"}
Patterns == {"*", "k1*", "ns:*"}
\* glob matching of the patterns above against the keys of the model
Match(p, k) == CASE p = "*" -> TRUE [] p = "k1*" -> k = "k1" [] OTHER -> FALSE
KeyLists == {<<"k1">>, <<"k1", "k2">>, <<"k2", "k1">>}
Mappings == {("k1" :> "r1"), ("k1" :> "r2" @@ "k2" :> "r1")}
SetArgs == {<<k, v, e>> : k \in Keys, v \in Values, e \in Expiries}
Args(o) ==
  CASE o \in {"get", "delete", "exists"} -> Keys
    [] o = "set" -> SetArgs
    [] o = "mget" -> KeyLists
    [] o = "mset" -> Mappings
    [] o \in {"get_by_pattern", "keys"} -> Patterns
    [] OTHER -> {"none"}
\* one argument per operation, as in main() (lines 190-201)
MainArgs(o) ==
  CASE o \in {"get", "delete", "exists"} -> {"k1"}
    [] o = "set" -> {<<"k1", "r1", NoExpiry>>}
    [] o = "mget" -> {<<"k1">>}
    [] o = "mset" -> {("k1" :> "r1")}
    [] o \in {"get_by_pattern", "keys"} -> {"k1*"}
    [] OTHER -> {"none"}

\* the first line of every operation, client = self.get_connection() (lines
\* 96, 103, 110, 117, 124, 135, 142, 163, 170, 177), and the call on the
\* client that follows it; pipeline() (line 178) only builds a command
\* queue and returns it
OpCall(t, o, a) ==
  /\ task[t].pc = "idle"
  /\ task[t].ref # None
  /\ task' = [task EXCEPT ![t] =
       IF ClientMissing
         THEN Finish(Start(t, o), Raised(NotInitialized))
         ELSE IF client = None
           THEN Finish(Start(t, o), Raised("AttributeError"))
           ELSE IF o = "pipeline"
             THEN Finish(Start(t, o), Ok("pipeline"))
             ELSE [Start(t, o) EXCEPT !.pc = "op_wait", !.arg = a, !.cl = client]]
  /\ UNCHANGED <<store, syncVars, classVars, connVars>>

Waiting(t, o) == task[t].pc = "op_wait" /\ task[t].op = o
Reply(t, r) == [task EXCEPT ![t] = Finish([@ EXCEPT !.sent = TRUE], r)]
Present(k) == store[k] # Absent
\* every order in which the server may list the keys of S
KeyOrders(S) ==
  {q \in [1..Cardinality(S) -> S] : \A i, j \in 1..Cardinality(S) : q[i] = q[j] => i = j}
\* the server's MGET: one value per key asked, in the order asked
MgetValues(ks) == [i \in 1..Len(ks) |-> store[ks[i]].val]
\* mutant: the dict pairs every listed key with the first fetched value
ZipDictFirstValue(ks, vs) == [k \in {ks[i] : i \in 1..Len(ks)} |-> vs[1]]

\* line 129: {k: v for k, v in zip(keys, values)}
ZipDict(ks, vs) ==
  [k \in {ks[i] : i \in 1..Len(ks)} |->
     vs[CHOOSE i \in 1..Len(ks) : ks[i] = k /\ \A j \in 1..Len(ks) : ks[j] = k => j <= i]]

\* line 97: return await client.get(key)
ReplyGet(t) ==
  /\ Waiting(t, "get")
  /\ task' = Reply(t, Ok(store[task[t].arg].val))
  /\ UNCHANGED <<store, syncVars, classVars, connVars>>

\* line 104: return await client.set(key, value, ex=expire)
ReplySet(t) ==
  /\ Waiting(t, "set")
  /\ store' = [store EXCEPT ![task[t].arg[1]] = Entry(task[t].arg[2], task[t].arg[3])]
  /\ task' = Reply(t, Ok("True"))
  /\ UNCHANGED <<syncVars, classVars, connVars>>

\* line 111: return await client.mget(keys)
ReplyMget(t) ==
  /\ Waiting(t, "mget")
  /\ task' = Reply(t, Ok(MgetValues(task[t].arg)))
  /\ UNCHANGED <<store, syncVars, classVars, connVars>>

\* line 118: return await client.mset(mapping)
ReplyMset(t) ==
  /\ Waiting(t, "mset")
  /\ store' = [k \in Keys |-> IF k \in DOMAIN task[t].arg
                                THEN Entry(task[t].arg[k], NoExpiry) ELSE store[k]]
  /\ task' = Reply(t, Ok("True"))
  /\ UNCHANGED <<syncVars, classVars, connVars>>

\* line 136: return await client.delete(key)
ReplyDelete(t) ==
  /\ Waiting(t, "delete")
  /\ store' = [store EXCEPT ![task[t].arg] = Absent]
  /\ task' = Reply(t, Ok(IF Present(task[t].arg) THEN 1 ELSE 0))
  /\ UNCHANGED <<syncVars, classVars, connVars>>

\* line 143: return (await client.exists(key)) == 1
ReplyExists(t) ==
  /\ Waiting(t, "exists")
  /\ task' = Reply(t, Ok((IF Present(task[t].arg) THEN 1 ELSE 0) = 1))
  /\ UNCHANGED <<store, syncVars, classVars, connVars>>

\* line 164: return await client.keys(pattern)
ReplyKeys(t) ==
  /\ Waiting(t, "keys")
  /\ \E q \in KeyOrders({k \in Keys : Present(k) /\ Match(task[t].arg, k)}) :
       task' = Reply(t, Ok(q))
  /\ UNCHANGED <<store, syncVars, classVars, connVars>>

\* line 171: await client.flushdb()
ReplyFlushdb(t) ==
  /\ Waiting(t, "flushdb")
  /\ store' = [k \in Keys |-> Absent]
  /\ task' = Reply(t, Ok("None"))
  /\ UNCHANGED <<syncVars, classVars, connVars>>

\* lines 125-128: keys = await client.keys(pattern); if not keys: return {};
\* otherwise await client.mget(keys). The record keeps the listed keys, and
\* (history) the store as it was when they were listed
ReplyPatternKeys(t) ==
  /\ Waiting(t, "get_by_pattern")
  /\ \E q \in KeyOrders({k \in Keys : Present(k) /\ Match(task[t].arg, k)}) :
       task' = IF q = <<>>
                 THEN Reply(t, Ok(<<>>))
                 ELSE [task EXCEPT ![t] = [@ EXCEPT !.pc = "gbp_mget", !.keys = q,
                                                    !.snap = store, !.sent = TRUE]]
  /\ UNCHANGED <<store, syncVars, classVars, connVars>>

\* lines 128-129: values = await client.mget(keys); return the zipped dict
ReplyPatternMget(t) ==
  /\ task[t].pc = "gbp_mget"
  /\ task' = Reply(t, Ok(ZipDict(task[t].keys, MgetValues(task[t].keys))))
  /\ UNCHANGED <<store, syncVars, classVars, connVars>>

\* --------------------------------------------------------- set_decorator
\* lines 150-156: the wrapper closes over func, key and expire
Wrapper(func, key, expire) == [func |-> func, key |-> key, expire |-> expire]

\* line 157: return decorator if callable(key) is False else decorator(key);
\* target is the operation the returned decorator is then applied to
SetDecorator(key, expire, target) ==
  IF Callable(key) = FALSE THEN Wrapper(target, key, expire)
  ELSE Wrapper(key, key, expire)

\* @svc.set_decorator(k, expire=e) with a literal key
LiteralWrappers == {SetDecorator(k, e, f) : k \in Keys, e \in Expiries, f \in Funcs}
\* @svc.set_decorator, the operation itself in the key position
BareWrappers == {SetDecorator(f, NoExpiry, f) : f \in Funcs}

\* line 153: the wrapper is called and awaits func(*args, **kwargs)
WrapperCall(t, w) ==
  /\ task[t].pc = "idle"
  /\ task[t].ref # None
  /\ w \in LiteralWrappers \cup BareWrappers
  /\ task' = [task EXCEPT ![t] =
       [Start(t, IF w \in BareWrappers THEN "bare_wrapper" ELSE "wrapper")
          EXCEPT !.pc = "dec_func", !.arg = w]]
  /\ UNCHANGED <<store, syncVars, classVars, connVars>>

\* the client encodes a command's arguments before sending it and rejects
\* (DataError) what is no string, bytes or number: a function object is none
Encodable(k) == ~Callable(k)

\* lines 153-154 and 103-104: func has returned v; self.set(key, result,
\* expire=expire) gets the connection and calls client.set
FuncReturns(t, v) ==
  /\ task[t].pc = "dec_func"
  /\ LET rec == [task[t] EXCEPT !.fres = v, !.hadPool = (pool # None)]
     IN task' = [task EXCEPT ![t] =
          IF ClientMissing
            THEN Finish(rec, Raised(NotInitialized))
            ELSE IF client = None \/ ~Encodable(rec.arg.key)
              THEN Finish(rec, Raised(IF client = None THEN "AttributeError" ELSE "DataError"))
              ELSE [rec EXCEPT !.pc = "dec_set", !.cl = client]]
  /\ UNCHANGED <<store, syncVars, classVars, connVars>>

\* mutant: the wrapper returns what self.set returned
WrapperReturnsSetResult(t) == "True"

\* line 155: return result
WrapperReturn(t) == task[t].fres

\* lines 154-155: the server has stored the result under the key with the
\* expiry; the wrapper returns the result
WrapperSetReply(t) ==
  /\ task[t].pc = "dec_set"
  /\ store' = [store EXCEPT ![task[t].arg.key] = Entry(task[t].fres, task[t].arg.expire)]
  /\ task' = Reply(t, Ok(WrapperReturn(t)))
  /\ UNCHANGED <<syncVars, classVars, connVars>>

\* the lifecycle of the service (construction, pool set-up, aclose, async
\* with) under two tasks, with every key-value operation on one key
NextAsync ==
  \/ \E t \in Tasks : MetaCall(t)
  \/ \E t \in Tasks : MetaConstruct(t)
  \/ \E t \in Tasks : SetConnectionPool(t)
  \/ \E t \in Tasks : AcloseEnter(t)
  \/ \E t \in Tasks : AcloseClientClosed(t)
  \/ \E t \in Tasks : AclosePoolClosed(t)
  \/ \E t \in Tasks : WithEnter(t)
  \/ \E t \in Tasks, path \in {"normal", "error"} : WithBodyEnds(t, path)
  \/ \E t \in Tasks : GetConnection(t)
  \/ \E t \in Tasks, o \in KVOps : \E a \in MainArgs(o) : OpCall(t, o, a)
  \/ \E t \in Tasks : ReplyGet(t)
  \/ \E t \in Tasks : ReplySet(t)
  \/ \E t \in Tasks : ReplyMget(t)
  \/ \E t \in Tasks : ReplyMset(t)
  \/ \E t \in Tasks : ReplyDelete(t)
  \/ \E t \in Tasks : ReplyExists(t)
  \/ \E t \in Tasks : ReplyKeys(t)
  \/ \E t \in Tasks : ReplyFlushdb(t)
  \/ \E t \in Tasks : ReplyPatternKeys(t)
  \/ \E t \in Tasks : ReplyPatternMget(t)

SpecAsync == Init /\ [][NextAsync]_vars

\* the caching decorator under two tasks: wrapped operations on every key
\* with every expiry, while the pool is set up and closed
NextCache ==
  \/ \E t \in Tasks : MetaCall(t)
  \/ \E t \in Tasks : MetaConstruct(t)
  \/ \E t \in Tasks : SetConnectionPool(t)
  \/ \E t \in Tasks : AcloseEnter(t)
  \/ \E t \in Tasks : AcloseClientClosed(t)
  \/ \E t \in Tasks : AclosePoolClosed(t)
  \/ \E t \in Tasks, w \in LiteralWrappers \cup BareWrappers : WrapperCall(t, w)
  \/ \E t \in Tasks, v \in Values : FuncReturns(t, v)
  \/ \E t \in Tasks : WrapperSetReply(t)
  \/ \E k \in Keys : KeyExpires(k)

SpecCache == Init /\ [][NextCache]_vars

\* get_by_pattern with every pattern under two tasks, while keys are set
\* (with and without expiry), deleted and expire
NextPattern ==
  \/ \E t \in Tasks : MetaCall(t)
  \/ \E t \in Tasks : MetaConstruct(t)
  \/ \E t \in Tasks : SetConnectionPool(t)
  \/ \E t \in Tasks, o \in {"get_by_pattern", "set", "delete"} :
       \E a \in Args(o) : OpCall(t, o, a)
  \/ \E t \in Tasks : ReplySet(t)
  \/ \E t \in Tasks : ReplyDelete(t)
  \/ \E t \in Tasks : ReplyPatternKeys(t)
  \/ \E t \in Tasks : ReplyPatternMget(t)
  \/ \E k \in Keys : KeyExpires(k)

SpecPattern == Init /\ [][NextPattern]_vars

\* -------------------------------------------- claims: AsyncRedisService
Done(t, o) == task[t].pc = "idle" /\ task[t].op = o
Failed(t, e) == task[t].res.st = "raised" /\ task[t].res.v = e

\* a step of task t inside AsyncRedisService()
ConstructStep(t) ==
  \/ task[t].pc = "meta_lock" /\ task'[t].pc = "idle"
  \/ task[t].pc = "idle" /\ task'[t].pc = "meta_lock"
  \/ /\ task[t].pc = "idle" /\ task'[t].pc = "idle"
     /\ task[t].op # "construct" /\ task'[t].op = "construct"

\* C2: however the tasks' AsyncRedisService() calls interleave with each
\* other and with the rest, __init__ runs at most once, every reference
\* handed out is the one registered instance, and no step of a construction
\* changes a pool and client that set_connection_pool has installed.
C2_ConstructOnce ==
  /\ [](/\ nInits <= 1
        /\ \A t \in Tasks :
             task[t].ref # None
               => (nInits = 1 /\ task[t].ref = ARS_instance /\ task[t].ref = Meta_instances))
  /\ [][\A t \in Tasks :
         (ConstructStep(t) /\ client # None) => (client' = client /\ pool' = pool)]_vars

\* a construction made while a pool was installed has returned the instance
\* the other task holds too, and the pool and client are still installed
C2_Witness ==
  \E t, u \in Tasks :
    /\ t # u
    /\ Done(t, "construct") /\ task[t].hadPool
    /\ task[u].ref # None /\ task[u].ref = task[t].ref
    /\ client # None /\ pool # None

InAclose(t) == task[t].pc \in {"ac_client", "ac_pool"}

\* C5: while a task is inside aclose (suspended at one of its awaits), no
\* step of another task changes or closes the pool and client; and what the
\* aclose itself closes or clears is no pool installed after it started.
C5_AcloseExcludesOthers ==
  [][\A t \in Tasks :
       InAclose(t) =>
         /\ task'[t].pc = task[t].pc
              => UNCHANGED <<pool, client, closedClients, closedPools>>
         /\ task'[t].pc # task[t].pc
              => /\ (closedPools' \ closedPools) \subseteq 1..task[t].gen
                 /\ (pool # None /\ pool' = None) => pool <= task[t].gen]_vars

KVOrConnection == KVOps \cup {"get_connection"}

\* C6: get_connection and each of the ten key-value operations, called while
\* no pool is configured, fails with the not-initialized error and no
\* command of it reaches the server.
C6_NoPoolNoCommand ==
  \A t \in Tasks :
    (Done(t, task[t].op) /\ task[t].op \in KVOrConnection /\ ~task[t].hadPool)
      => (Failed(t, NotInitialized) /\ ~task[t].sent)

\* a set called after the pool was closed, and not configured again, failed
C6_Witness ==
  \E t \in Tasks :
    /\ Done(t, "set") /\ ~task[t].hadPool /\ Failed(t, NotInitialized)
    /\ closedPools # {} /\ pool = None

\* the step in which task t leaves its async with block
WithExits(t) == task[t].op = "with" /\ task[t].pc # "idle" /\ task'[t].pc = "idle"

\* C7: a task leaves its async with block, on either path, only through a
\* step of aclose, and that step leaves client and pool absent; an absent
\* client is bound again only by set_connection_pool; and get_connection
\* called with no pool configured fails with the not-initialized error.
C7_ManagedBlockCloses ==
  /\ [][\A t \in Tasks :
         WithExits(t) => /\ task[t].pc \in {"aexit", "ac_client", "ac_pool"}
                         /\ client' = None
                         /\ pool' = None]_vars
  /\ [][(client = None /\ client' # None)
          => (nPools' = nPools + 1 /\ client' = nPools' /\ pool' = nPools')]_vars
  /\ [](\A t \in Tasks :
         (Done(t, "get_connection") /\ ~task[t].hadPool) => Failed(t, NotInitialized))

\* a block whose body raised has been left: its pool is closed, both
\* references are absent and the body's error reached the caller
C7_Witness ==
  \E t \in Tasks :
    /\ Done(t, "with") /\ Failed(t, "BodyError")
    /\ closedPools # {} /\ client = None /\ pool = None

\* the step in which the wrapper of task t returns
WrapperReturns(t) == task[t].pc = "dec_set" /\ task'[t].pc = "idle"

\* C9: a call of an operation wrapped with a literal key returns only after
\* the operation has run in that very call; the step in which it returns
\* leaves the operation's result under the key with the given expiry and
\* hands the same result to the caller. With no pool configured the call
\* fails with the not-initialized error (after running the operation).
C9_WriteThrough ==
  /\ [][\A t \in Tasks :
         (WrapperReturns(t) /\ task[t].op = "wrapper")
           => /\ task[t].fres \in Values
              /\ task'[t].res = Ok(task[t].fres)
              /\ store'[task[t].arg.key] = Entry(task[t].fres, task[t].arg.expire)]_vars
  /\ [][\A t \in Tasks :
         (task[t].pc = "idle" /\ task'[t].op = "wrapper" /\ task[t].op # "wrapper")
           => task'[t].pc = "dec_func"]_vars
  /\ [](\A t \in Tasks :
         Done(t, "wrapper") =>
           IF task[t].hadPool THEN task[t].res.st = "ok" /\ task[t].res.v \in Values
           ELSE Failed(t, NotInitialized))

\* two calls on the same key returned r1 and then r2, and the key holds r2
\* with the expiry given
C9_Witness ==
  \E t, u \in Tasks, k \in Keys :
    /\ t # u
    /\ Done(t, "wrapper") /\ task[t].res = Ok("r1")
    /\ Done(u, "wrapper") /\ task[u].res = Ok("r2")
    /\ store[k] = Entry("r2", 60)
    /\ \A j \in Keys \ {k} : store[j] = Absent

\* C10: a call of the wrapper that set_decorator returns when the operation
\* itself is in the key position, made with a pool configured, returns the
\* operation's result to the caller.
C10_BareDecoratorReturnsResult ==
  \A t \in Tasks :
    (Done(t, "bare_wrapper") /\ task[t].hadPool)
      => (task[t].res.st = "ok" /\ task[t].res.v \in Values)

\* the keys of the store that match pattern p
Matching(p) == {k \in Keys : Present(k) /\ Match(p, k)}

\* C11: a get_by_pattern(p) whose key listing finds no matching key returns
\* the empty mapping at once, with no batch fetch (mget) sent; one that found
\* keys and whose batch fetch is answered while the store is as it was when
\* the keys were listed returns exactly the mapping from each key of the
\* store that matches p to its current value
C11_PatternMapping ==
  [][\A t \in Tasks :
       /\ (Waiting(t, "get_by_pattern") /\ task'[t].pc # "op_wait"
              /\ Matching(task[t].arg) = {})
            => /\ task'[t].pc = "idle"
               /\ task'[t].res.st = "ok"
               /\ DOMAIN task'[t].res.v = {}
       /\ task'[t].pc = "gbp_mget" => task'[t].keys # <<>>
       /\ (task[t].pc = "gbp_mget" /\ task'[t].pc = "idle" /\ task[t].snap = store)
            => /\ task'[t].res.st = "ok"
               /\ task'[t].res.v = [k \in Matching(task[t].arg) |-> store[k].val]]_vars

\* a get_by_pattern has returned both keys of the store, each paired with
\* its current value, the two values differing
C11_Witness ==
  \E t \in Tasks :
    /\ Done(t, "get_by_pattern")
    /\ task[t].res.st = "ok"
    /\ DOMAIN task[t].res.v = Keys
    /\ \A k \in Keys : Present(k) /\ task[t].res.v[k] = store[k].val
    /\ store["k1"].val # store["k2"].val

\* C12: on a RedisService reference obtained through initialize and
\* get_instance, a get(k) that follows the thread's set(k, v), with no write
\* to k in between and the expiry (if any) not elapsed, returns v; a get on
\* a key no set was ever called on returns the absent result, not an error
C12_SetGetRoundTrip ==
  \A t \in Threads :
    Finished(t, "get") =>
      /\ lastSet[t].k = tkey[t] => tres[t] = lastSet[t].v
      /\ tkey[t] \notin everSet => tres[t] = "None"

\* a thread has set a key with an expiry and read its value back, and
\* another thread has read a key that was never set
C12_Witness ==
  \E t, u \in Threads :
    /\ Finished(t, "get") /\ lastSet[t].k = tkey[t] /\ tres[t] \in Values
    /\ store[tkey[t]].ex # NoExpiry
    /\ Finished(u, "get") /\ tkey[u] \notin everSet /\ tres[u] = "None"

\* the step in which task t is handed self._client: by an operation, which
\* then waits for the client's answer, or by get_connection called directly
HandsOut(t) ==
  /\ task[t].pc = "idle"
  /\ \/ task'[t].pc = "op_wait"
     \/ /\ task'[t].pc = "idle"
        /\ task'[t].op = "get_connection" /\ task'[t].res.st = "ok"
        /\ ~(task[t].op = "get_connection" /\ task[t].res.st = "ok"
               /\ task[t].cl = task'[t].cl)

\* C13: get_connection, called directly or by an operation, never hands a
\* task a client whose aclose() has completed
C13_NoClosedClientHandedOut ==
  [][\A t \in Tasks : HandsOut(t) => task'[t].cl \notin closedClients]_vars

====
